---- MODULE Spec2Model ----
(***************************************************************************)
(* Model of storage/mutate/AddEdgesProcessor.cpp: the edge-mutation path   *)
(* of the storage engine.  A request carries partition -> list of edges;   *)
(* process() takes one version tag, looks the space's edge indexes up and  *)
(* either multi-puts the primary records (no index) or submits one atomic  *)
(* operation per partition which runs addEdges() against the partition's   *)
(* store.  Keys are modelled as byte sequences, integers in memory as      *)
(* little-endian byte images, so that ordering of keys is the byte-wise    *)
(* lexicographic order the key-value engine uses.                          *)
(***************************************************************************)
EXTENDS Integers, Sequences, FiniteSets, TLC

\* ------------------------------------------------------------------------
\* Bounds of the model
\* ------------------------------------------------------------------------
\* requests processed in one behaviour
MaxReq == 2
\* edges carried by one request, over all its partitions
MaxEdges == 2
\* the microsecond clock runs from ClockStart to MaxClock
ClockStart == 255
MaxClock == 256

\* ------------------------------------------------------------------------
\* Byte images of integers
\* ------------------------------------------------------------------------
RECURSIVE ToBytes(_, _)
\* memory image of the non-negative integer n in w bytes, least significant first
ToBytes(n, w) ==
    IF w = 0 THEN <<>> ELSE <<n % 256>> \o ToBytes(n \div 256, w - 1)

RECURSIVE FromBytes(_)
\* the integer whose memory image is b
FromBytes(b) ==
    IF b = <<>> THEN 0 ELSE b[1] + 256 * FromBytes(Tail(b))

Reverse(s) ==
    [i \in 1..Len(s) |-> s[Len(s) + 1 - i]]

\* std::numeric_limits<int64_t>::max() as an 8-byte memory image
Int64Max ==
    <<255, 255, 255, 255, 255, 255, 255, 127>>

RECURSIVE SubBytes(_, _, _)
\* a - b - borrow on memory images of equal width, wrapping as int64 does
SubBytes(a, b, borrow) ==
    IF a = <<>> THEN <<>>
    ELSE LET d == a[1] - b[1] - borrow
         IN  <<d % 256>> \o SubBytes(Tail(a), Tail(b), IF d < 0 THEN 1 ELSE 0)

\* folly::Endian::big on an 8-byte value of a little-endian host: byte swap
EndianBigSkipped(v) ==
    v

EndianBig(v) ==
    Reverse(v)

\* the version tag of process(): lines 17-20
VersionTag(multiVersions, nowMicroSec) ==
    EndianBig(IF multiVersions
              THEN SubBytes(Int64Max, ToBytes(nowMicroSec, 8), 0)
              ELSE ToBytes(0, 8))

\* byte-wise lexicographic order of keys in the key-value engine
RECURSIVE LexLess(_, _)
LexLess(a, b) ==
    IF b = <<>> THEN FALSE
    ELSE IF a = <<>> THEN TRUE
    ELSE IF a[1] # b[1] THEN a[1] < b[1]
    ELSE LexLess(Tail(a), Tail(b))

IsPrefix(p, k) ==
    Len(p) <= Len(k) /\ SubSeq(k, 1, Len(p)) = p

\* ------------------------------------------------------------------------
\* Key codec (NebulaKeyUtils): fixed-width fields, no delimiters
\* ------------------------------------------------------------------------
edgePrefix(partId, srcId, type, rank, dstId) ==
    ToBytes(partId, 4) \o ToBytes(srcId, 8) \o ToBytes(type, 4)
        \o ToBytes(rank, 8) \o ToBytes(dstId, 8)

edgeKey(partId, srcId, type, rank, dstId, version) ==
    edgePrefix(partId, srcId, type, rank, dstId) \o version

getSrcId(rawKey) ==
    FromBytes(SubSeq(rawKey, 5, 12))

getEdgeType(rawKey) ==
    FromBytes(SubSeq(rawKey, 13, 16))

getRank(rawKey) ==
    FromBytes(SubSeq(rawKey, 17, 24))

getDstId(rawKey) ==
    FromBytes(SubSeq(rawKey, 25, 32))

edgeIndexKey(partId, indexId, srcId, rank, dstId, values) ==
    ToBytes(partId, 4) \o ToBytes(indexId, 4) \o ToBytes(srcId, 8)
        \o ToBytes(rank, 8) \o ToBytes(dstId, 8) \o values

\* ------------------------------------------------------------------------
\* Result codes of the key-value store
\* ------------------------------------------------------------------------
SUCCEEDED == "SUCCEEDED"
E_KEY_NOT_FOUND == "E_KEY_NOT_FOUND"
E_ATOMIC_OP_FAILED == "E_ATOMIC_OP_FAILED"
E_LEADER_CHANGED == "E_LEADER_CHANGED"

\* ------------------------------------------------------------------------
\* Rows and schemas (RowReader, collectIndexValues)
\* A property blob is <<n, v1, .., vn>>: a field count followed by the
\* values of the first n fields of the edge type's schema.
\* ------------------------------------------------------------------------
SchemaFields(edgeType) ==
    <<"f1", "f2">>

\* RowReader::getEmptyRowReader(): the null reader
EmptyRowReader ==
    [valid |-> FALSE, names |-> <<>>, fields |-> <<>>]

\* RowReader::getEdgePropReader: the decoded row, or the null reader when the
\* blob is malformed
getEdgePropReader(val, edgeType) ==
    IF /\ Len(val) >= 1
       /\ val[1] = Len(val) - 1
       /\ val[1] <= Len(SchemaFields(edgeType))
    THEN [valid |-> TRUE,
          names |-> SubSeq(SchemaFields(edgeType), 1, val[1]),
          fields |-> Tail(val)]
    ELSE EmptyRowReader

RECURSIVE collectIndexValues(_, _)
\* the encoded values of the named fields, in the index's order; not ok when
\* the row lacks one of them
collectIndexValues(reader, cols) ==
    IF cols = <<>> THEN [ok |-> TRUE, value |-> <<>>]
    ELSE LET pos == {i \in 1..Len(reader.names) : reader.names[i] = cols[1]}
             rest == collectIndexValues(reader, Tail(cols))
         IN  IF pos = {} \/ ~rest.ok
             THEN [ok |-> FALSE, value |-> <<>>]
             ELSE [ok |-> TRUE,
                   value |-> ToBytes(reader.fields[CHOOSE i \in pos : TRUE], 8)
                                 \o rest.value]

\* ------------------------------------------------------------------------
\* The partition's key-value engine: a function from keys to values
\* ------------------------------------------------------------------------
KvPut(kv, key, val) ==
    [k \in DOMAIN kv \cup {key} |-> IF k = key THEN val ELSE kv[k]]

KvRemove(kv, key) ==
    [k \in DOMAIN kv \ {key} |-> kv[k]]

\* the first key in key order that starts with the prefix
FirstMatch(kv, prefix) ==
    LET m == {k \in DOMAIN kv : IsPrefix(prefix, k)}
    IN  CHOOSE k \in m : \A j \in m \ {k} : LexLess(k, j)

\* BaseProcessor::doGetFirstRecord: the value of the first record under the
\* prefix.  readCode is what the engine answers the read with: SUCCEEDED when
\* it can be read, a failure code otherwise
doGetFirstRecord(kv, readCode, prefix) ==
    IF readCode # SUCCEEDED
    THEN [code |-> readCode, value |-> <<>>]
    ELSE IF \E k \in DOMAIN kv : IsPrefix(prefix, k)
    THEN [code |-> SUCCEEDED, value |-> kv[FirstMatch(kv, prefix)]]
    ELSE [code |-> E_KEY_NOT_FOUND, value |-> <<>>]

\* ------------------------------------------------------------------------
\* AddEdgesProcessor::findObsoleteIndex and ::indexKey
\* ------------------------------------------------------------------------
findObsoleteIndex(kv, readCode, partId, rawKey) ==
    LET prefix == edgePrefix(partId, getSrcId(rawKey), getEdgeType(rawKey),
                             getRank(rawKey), getDstId(rawKey))
        ret == doGetFirstRecord(kv, readCode, prefix)
    IN  IF ret.code = SUCCEEDED THEN ret.value ELSE <<>>

\* the test of values.ok() inverted
indexKeyInverted(partId, reader, rawKey, index) ==
    LET values == collectIndexValues(reader, index.fields)
    IN  IF values.ok THEN <<>>
        ELSE edgeIndexKey(partId, index.index_id, getSrcId(rawKey),
                          getRank(rawKey), getDstId(rawKey), values.value)

\* the edge key returned in place of the index key
indexKeyRawKey(partId, reader, rawKey, index) ==
    LET values == collectIndexValues(reader, index.fields)
    IN  IF ~values.ok THEN <<>> ELSE rawKey

indexKey(partId, reader, rawKey, index) ==
    LET values == collectIndexValues(reader, index.fields)
    IN  IF ~values.ok THEN <<>>
        ELSE edgeIndexKey(partId, index.index_id, getSrcId(rawKey),
                          getRank(rawKey), getDstId(rawKey), values.value)

\* ------------------------------------------------------------------------
\* Atomic batch (kvstore::BatchHolder, encodeBatchValue / decodeBatchValue)
\* ------------------------------------------------------------------------
BatchPut(key, val) ==
    [op |-> "put", key |-> key, val |-> val]

BatchRemove(key) ==
    [op |-> "remove", key |-> key, val |-> <<>>]

RECURSIVE encodeBatchValue(_)
\* one byte string: per operation a tag (1 put, 2 remove), the key length, the
\* key, the value length, the value
encodeBatchValue(batch) ==
    IF batch = <<>> THEN <<>>
    ELSE LET o == Head(batch)
         IN  <<IF o.op = "put" THEN 1 ELSE 2, Len(o.key)>> \o o.key
                 \o <<Len(o.val)>> \o o.val \o encodeBatchValue(Tail(batch))

RECURSIVE decodeBatchValue(_)
decodeBatchValue(bytes) ==
    IF bytes = <<>> THEN <<>>
    ELSE LET klen == bytes[2]
             vlen == bytes[3 + klen]
             key == SubSeq(bytes, 3, 2 + klen)
             val == SubSeq(bytes, 4 + klen, 3 + klen + vlen)
             o == IF bytes[1] = 1 THEN BatchPut(key, val) ELSE BatchRemove(key)
         IN  <<o>> \o decodeBatchValue(SubSeq(bytes, 4 + klen + vlen, Len(bytes)))

RECURSIVE ApplyBatch(_, _)
\* the engine applies the operations of a batch in order
ApplyBatch(kv, batch) ==
    IF batch = <<>> THEN kv
    ELSE LET o == Head(batch)
         IN  ApplyBatch(IF o.op = "put" THEN KvPut(kv, o.key, o.val)
                                        ELSE KvRemove(kv, o.key),
                        Tail(batch))

\* ------------------------------------------------------------------------
\* AddEdgesProcessor::addEdges
\* ------------------------------------------------------------------------
\* line 88, newEdges[key] = prop: a later occurrence of a key replaces the
\* earlier one
newEdgesInsertKeepFirst(newEdges, key, prop) ==
    IF key \in DOMAIN newEdges THEN newEdges ELSE KvPut(newEdges, key, prop)

newEdgesInsert(newEdges, key, prop) ==
    KvPut(newEdges, key, prop)

RECURSIVE BuildNewEdgesReversed(_, _, _, _)
\* the map filled from the last edge of the list to the first
BuildNewEdgesReversed(version, partId, edges, newEdges) ==
    IF edges = <<>> THEN newEdges
    ELSE LET edge == Head(edges)
             key == edgeKey(partId, edge.src, edge.edge_type, edge.ranking,
                            edge.dst, version)
         IN  newEdgesInsert(BuildNewEdgesReversed(version, partId, Tail(edges),
                                                  newEdges),
                            key, edge.props)

RECURSIVE BuildNewEdges(_, _, _, _)
\* lines 77-89: the map from edge key to property blob, filled in request order
BuildNewEdges(version, partId, edges, newEdges) ==
    IF edges = <<>> THEN newEdges
    ELSE LET edge == Head(edges)
             key == edgeKey(partId, edge.src, edge.edge_type, edge.ranking,
                            edge.dst, version)
         IN  BuildNewEdges(version, partId, Tail(edges),
                           newEdgesInsert(newEdges, key, edge.props))

RECURSIVE SortedKeys(_)
\* iteration order of std::map<std::string, ..>: ascending byte order
SortedKeys(S) ==
    IF S = {} THEN <<>>
    ELSE LET m == CHOOSE k \in S : \A j \in S \ {k} : LexLess(k, j)
         IN  <<m>> \o SortedKeys(S \ {m})

\* line 132: the obsolete index entry is removed unless the request says to
\* ignore existing indexes
RemovesObsolete(self) ==
    ~self.ignoreExistedIndex_

RECURSIVE IndexOpsSkipBoth(_, _, _, _, _, _)
\* an index whose new key is not computable gets no operation at all
IndexOpsSkipBoth(self, partId, reader, nReader, rawKey, indexes) ==
    IF indexes = <<>> THEN <<>>
    ELSE LET index == Head(indexes)
             oi == indexKey(partId, reader, rawKey, index)
             ni == indexKey(partId, nReader, rawKey, index)
             step1 == IF RemovesObsolete(self) /\ reader.valid /\ oi # <<>>
                      THEN <<BatchRemove(oi)>> ELSE <<>>
             step2 == IF ni # <<>> THEN <<BatchPut(ni, <<>>)>> ELSE <<>>
         IN  (IF getEdgeType(rawKey) = index.edge_type /\ ni # <<>>
              THEN step1 \o step2 ELSE <<>>)
                 \o IndexOpsSkipBoth(self, partId, reader, nReader, rawKey,
                                     Tail(indexes))

RECURSIVE IndexOpsPutFirst(_, _, _, _, _, _)
\* step 2 before step 1
IndexOpsPutFirst(self, partId, reader, nReader, rawKey, indexes) ==
    IF indexes = <<>> THEN <<>>
    ELSE LET index == Head(indexes)
             oi == indexKey(partId, reader, rawKey, index)
             ni == indexKey(partId, nReader, rawKey, index)
             step1 == IF RemovesObsolete(self) /\ reader.valid /\ oi # <<>>
                      THEN <<BatchRemove(oi)>> ELSE <<>>
             step2 == IF ni # <<>> THEN <<BatchPut(ni, <<>>)>> ELSE <<>>
         IN  (IF getEdgeType(rawKey) = index.edge_type
              THEN step2 \o step1 ELSE <<>>)
                 \o IndexOpsPutFirst(self, partId, reader, nReader, rawKey,
                                     Tail(indexes))

RECURSIVE IndexOps(_, _, _, _, _, _)
\* lines 127-148: for every index of the edge's type, remove the obsolete
\* entry and put the new one, when their keys are computable
IndexOps(self, partId, reader, nReader, rawKey, indexes) ==
    IF indexes = <<>> THEN <<>>
    ELSE LET index == Head(indexes)
             oi == indexKey(partId, reader, rawKey, index)
             ni == indexKey(partId, nReader, rawKey, index)
             step1 == IF RemovesObsolete(self) /\ reader.valid /\ oi # <<>>
                      THEN <<BatchRemove(oi)>> ELSE <<>>
             step2 == IF ni # <<>> THEN <<BatchPut(ni, <<>>)>> ELSE <<>>
         IN  (IF getEdgeType(rawKey) = index.edge_type
              THEN step1 \o step2 ELSE <<>>)
                 \o IndexOps(self, partId, reader, nReader, rawKey, Tail(indexes))

\* lines 99 and 114: whether the obsolete record is looked up, and whether the
\* new value is decoded
LooksUpObsoleteIgnoringFlag(self, hasIndex) ==
    hasIndex

\* the lookup made whether or not the edge type has an index
LooksUpObsoleteAnyType(self, hasIndex) ==
    ~self.ignoreExistedIndex_

LooksUpObsolete(self, hasIndex) ==
    ~self.ignoreExistedIndex_ /\ hasIndex

\* lines 91-154: one iteration of the loop over newEdges.  abort is the early
\* return of "", ops the operations added to the batch holder, lookups and
\* decodes the calls of doGetFirstRecord and getEdgePropReader made
EdgeStep(self, kv, readCode, partId, rawKey, prop) ==
    LET edgeType == getEdgeType(rawKey)
        hasIndex == \E i \in 1..Len(self.indexes_) :
                        self.indexes_[i].edge_type = edgeType
        lookup == LooksUpObsolete(self, hasIndex)
        val == IF lookup THEN findObsoleteIndex(kv, readCode, partId, rawKey)
               ELSE <<>>
        reader == IF val # <<>> THEN getEdgePropReader(val, edgeType)
                                ELSE EmptyRowReader
        nReader == IF hasIndex THEN getEdgePropReader(prop, edgeType)
                               ELSE EmptyRowReader
        nlook == IF lookup THEN 1 ELSE 0
        nold == IF val # <<>> THEN 1 ELSE 0
    IN  IF val # <<>> /\ ~reader.valid
        THEN [abort |-> TRUE, ops |-> <<>>, lookups |-> nlook, decodes |-> nold]
        ELSE IF hasIndex /\ ~nReader.valid
        THEN [abort |-> TRUE, ops |-> <<>>, lookups |-> nlook,
              decodes |-> nold + 1]
        ELSE [abort |-> FALSE,
              ops |-> IndexOps(self, partId, reader, nReader, rawKey,
                               self.indexes_) \o <<BatchPut(rawKey, prop)>>,
              lookups |-> nlook,
              decodes |-> nold + (IF hasIndex THEN 1 ELSE 0)]

RECURSIVE EdgeLoopSkipBad(_, _, _, _, _, _)
EdgeLoopSkipBad(self, kv, readCode, partId, newEdges, keys) ==
    IF keys = <<>>
    THEN [abort |-> FALSE, ops |-> <<>>, lookups |-> 0, decodes |-> 0]
    ELSE LET s == EdgeStep(self, kv, readCode, partId, Head(keys),
                           newEdges[Head(keys)])
             r == EdgeLoopSkipBad(self, kv, readCode, partId, newEdges, Tail(keys))
         IN  [abort |-> FALSE,
              ops |-> s.ops \o r.ops,
              lookups |-> s.lookups + r.lookups,
              decodes |-> s.decodes + r.decodes]

RECURSIVE EdgeLoop(_, _, _, _, _, _)
\* lines 90-155: the loop over newEdges in key order; a decode failure returns
\* from addEdges at once
EdgeLoop(self, kv, readCode, partId, newEdges, keys) ==
    IF keys = <<>>
    THEN [abort |-> FALSE, ops |-> <<>>, lookups |-> 0, decodes |-> 0]
    ELSE LET s == EdgeStep(self, kv, readCode, partId, Head(keys),
                           newEdges[Head(keys)])
             r == EdgeLoop(self, kv, readCode, partId, newEdges, Tail(keys))
         IN  IF s.abort THEN s
             ELSE [abort |-> r.abort,
                   ops |-> IF r.abort THEN <<>> ELSE s.ops \o r.ops,
                   lookups |-> s.lookups + r.lookups,
                   decodes |-> s.decodes + r.decodes]

\* the run of addEdges against the partition's engine kv
RunAddEdges(self, kv, readCode, version, partId, edges) ==
    LET newEdges == BuildNewEdges(version, partId, edges, <<>>)
    IN  EdgeLoop(self, kv, readCode, partId, newEdges,
                 SortedKeys(DOMAIN newEdges))

\* lines 60-158: the string addEdges returns
addEdges(self, kv, readCode, version, partId, edges) ==
    LET run == RunAddEdges(self, kv, readCode, version, partId, edges)
    IN  IF run.abort THEN <<>> ELSE encodeBatchValue(run.ops)

\* ------------------------------------------------------------------------
\* The workload: one space, its partitions, edges and index metadata
\* ------------------------------------------------------------------------
\* edge identities without the partition: (src, edge_type, ranking, dst)
EdgeX == [src |-> 1, edge_type |-> 1, ranking |-> 0, dst |-> 2]
EdgeX2 == [src |-> 1, edge_type |-> 1, ranking |-> 0, dst |-> 3]
EdgeY == [src |-> 1, edge_type |-> 2, ranking |-> 0, dst |-> 2]

\* property blobs: a full row, a row of an older schema without f2 (and with
\* another f1), and a malformed blob
RowA == <<2, 5, 7>>
RowShort == <<1, 6>>
RowBad == <<9>>

\* index metadata: two indexes on edge type 1, none on edge type 2
Idx1 == [index_id |-> 1, edge_type |-> 1, fields |-> <<"f1">>]
Idx2 == [index_id |-> 2, edge_type |-> 1, fields |-> <<"f2">>]

IndexConfigs == {<<>>, <<Idx1, Idx2>>}

\* What the clients send in one behaviour: the partitions, edge identities
\* and property blobs requests are made of, and how many requests may be in
\* flight at once.
WOne ==
    [parts |-> {1}, ids |-> {EdgeX}, vals |-> {RowA, RowShort, RowBad},
     inflight |-> 2, readFaults |-> FALSE, flagChanges |-> FALSE]

WParts ==
    [parts |-> {1, 2}, ids |-> {EdgeX}, vals |-> {RowA, RowBad},
     inflight |-> 1, readFaults |-> FALSE, flagChanges |-> FALSE]

WBatch ==
    [parts |-> {1}, ids |-> {EdgeX, EdgeX2, EdgeY},
     vals |-> {RowA, RowShort, RowBad}, inflight |-> 1, readFaults |-> FALSE, flagChanges |-> FALSE]

\* one edge identity in one partition whose reads may fail
WFault ==
    [parts |-> {1}, ids |-> {EdgeX}, vals |-> {RowA, RowShort, RowBad},
     inflight |-> 1, readFaults |-> TRUE, flagChanges |-> FALSE]

\* one edge identity in one partition, written by requests between which
\* the gflag enable_multi_versions may be changed
WMixed ==
    [parts |-> {1}, ids |-> {EdgeX}, vals |-> {RowA, RowShort},
     inflight |-> 1, readFaults |-> FALSE, flagChanges |-> TRUE]

Parts == {1, 2}

EdgesOf(w) ==
    {[src |-> e.src, edge_type |-> e.edge_type, ranking |-> e.ranking,
      dst |-> e.dst, props |-> v] : e \in w.ids, v \in w.vals}

EdgeLists(w) ==
    UNION {[1..n -> EdgesOf(w)] : n \in 1..MaxEdges}

RECURSIVE SumLen(_, _)
SumLen(f, S) ==
    IF S = {} THEN 0
    ELSE LET p == CHOOSE x \in S : TRUE
         IN  Len(f[p]) + SumLen(f, S \ {p})

\* req.parts: partition -> list of edges, at most MaxEdges edges in all
PartsMaps(w) ==
    {m \in UNION {[S -> EdgeLists(w)] : S \in SUBSET w.parts} :
        SumLen(m, DOMAIN m) <= MaxEdges}

RECURSIVE SortedInts(_)
SortedInts(S) ==
    IF S = {} THEN <<>>
    ELSE LET m == CHOOSE x \in S : \A y \in S : x <= y
         IN  <<m>> \o SortedInts(S \ {m})

\* ------------------------------------------------------------------------
\* State
\* ------------------------------------------------------------------------
VARIABLES
    \* time::WallClock::fastNowInMicroSec()
    clock,
    \* the gflag enable_multi_versions
    FLAGS_enable_multi_versions,
    \* the edge indexes the index manager holds for the space
    spaceIndexes,
    \* kvstore_: partition -> engine content (key -> value)
    kvstore,
    \* the processors, one per request
    proc,
    \* what the clients send in this behaviour
    workload

vars ==
    <<clock, FLAGS_enable_multi_versions, spaceIndexes, kvstore, proc, workload>>

ReqIds == 1..MaxReq

\* a processor before process() has run
NewProcessor ==
    [pc |-> "new",
     parts |-> <<>>,
     version |-> <<>>,
     callingNum_ |-> 0,
     indexes_ |-> <<>>,
     ignoreExistedIndex_ |-> FALSE,
     iRetOk |-> TRUE,
     calls |-> <<>>,
     answers |-> <<>>,
     lookups |-> 0,
     decodes |-> 0,
     readFailures |-> 0,
     onFinished |-> 0]

InitWith(w) ==
    /\ clock = ClockStart
    /\ FLAGS_enable_multi_versions \in BOOLEAN
    /\ spaceIndexes \in IndexConfigs
    /\ kvstore = [p \in Parts |-> <<>>]
    /\ proc = [r \in ReqIds |-> NewProcessor]
    /\ workload = w

\* ------------------------------------------------------------------------
\* AddEdgesProcessor::process
\* ------------------------------------------------------------------------
\* the version given to the keys of the first partition only
PutDataFirstPart(version, partId, edges) ==
    [i \in 1..Len(edges) |->
        [key |-> edgeKey(partId, edges[i].src, edges[i].edge_type,
                         edges[i].ranking, edges[i].dst,
                         IF partId = 1 THEN version ELSE EndianBig(ToBytes(0, 8))),
         val |-> edges[i].props]]

\* lines 31-43: the key/value pairs of one partition on the path without index
PutData(version, partId, edges) ==
    [i \in 1..Len(edges) |->
        [key |-> edgeKey(partId, edges[i].src, edges[i].edge_type,
                         edges[i].ranking, edges[i].dst, version),
         val |-> edges[i].props]]

\* line 43 (doPut) and line 55 (asyncAtomicOp): the call made for a partition
PutCall(version, partId, edges) ==
    [api |-> "asyncMultiPut", part |-> partId,
     data |-> PutData(version, partId, edges), edges |-> <<>>]

\* the closure built with the first partition's id for every partition
AtomicCallFirstPart(version, partId, edges) ==
    [api |-> "asyncAtomicOp", part |-> 1, data |-> <<>>, edges |-> edges]

AtomicCall(version, partId, edges) ==
    [api |-> "asyncAtomicOp", part |-> partId, data |-> <<>>, edges |-> edges]

\* line 22
CallingNum(parts) ==
    Cardinality(DOMAIN parts)

\* line 30: the path without index is taken when indexes_ is empty
TakesFastPathNever(indexes) ==
    FALSE

TakesFastPath(indexes) ==
    indexes = <<>>

\* the value of iRet taken whether or not the lookup succeeded
ProcessBodyValueAnyway(parts, ignore, iRetOk, multiVersions, now) ==
    LET version == VersionTag(multiVersions, now)
        indexes == spaceIndexes
        order == SortedInts(DOMAIN parts)
        calls == [i \in 1..Len(order) |->
                    IF TakesFastPath(indexes)
                    THEN PutCall(version, order[i], parts[order[i]])
                    ELSE AtomicCall(version, order[i], parts[order[i]])]
    IN  [pc |-> "processed",
         parts |-> parts,
         version |-> version,
         callingNum_ |-> CallingNum(parts),
         indexes_ |-> indexes,
         ignoreExistedIndex_ |-> ignore,
         iRetOk |-> iRetOk,
         calls |-> calls,
         answers |-> [i \in 1..Len(order) |-> <<>>],
         lookups |-> 0,
         decodes |-> 0,
         readFailures |-> 0,
         onFinished |-> 0]

\* lines 15-58.  iRetOk is the outcome of getEdgeIndexes, now the clock read
ProcessBody(parts, ignore, iRetOk, multiVersions, now) ==
    LET version == VersionTag(multiVersions, now)
        indexes == IF iRetOk THEN spaceIndexes ELSE <<>>
        order == SortedInts(DOMAIN parts)
        calls == [i \in 1..Len(order) |->
                    IF TakesFastPath(indexes)
                    THEN PutCall(version, order[i], parts[order[i]])
                    ELSE AtomicCall(version, order[i], parts[order[i]])]
    IN  [pc |-> "processed",
         parts |-> parts,
         version |-> version,
         callingNum_ |-> CallingNum(parts),
         indexes_ |-> indexes,
         ignoreExistedIndex_ |-> ignore,
         iRetOk |-> iRetOk,
         calls |-> calls,
         answers |-> [i \in 1..Len(order) |-> <<>>],
         lookups |-> 0,
         decodes |-> 0,
         readFailures |-> 0,
         onFinished |-> 0]

\* the values the gflag may have when a request arrives
FlagValues(w) ==
    IF w.flagChanges THEN BOOLEAN ELSE {FLAGS_enable_multi_versions}

Process(r) ==
    /\ proc[r].pc = "new"
    /\ \A q \in 1..(r - 1) : proc[q].pc # "new"
    /\ Cardinality({q \in ReqIds : proc[q].pc = "processed"}) < workload.inflight
    /\ \E parts \in PartsMaps(workload), ignore \in BOOLEAN, iRetOk \in BOOLEAN,
          now \in clock..MaxClock, multiVersions \in FlagValues(workload) :
           /\ multiVersions \/ now = clock
           /\ clock' = now
           /\ FLAGS_enable_multi_versions' = multiVersions
           /\ proc' = [proc EXCEPT ![r] =
                 ProcessBody(parts, ignore, iRetOk, multiVersions, now)]
    /\ UNCHANGED <<spaceIndexes, kvstore, workload>>

\* ------------------------------------------------------------------------
\* The key-value store answering the calls (BaseProcessor::handleAsync is the
\* completion callback)
\* ------------------------------------------------------------------------
\* handleAsync: one more partition has answered; the last one finishes the
\* request
handleAsync(self, i, code, value) ==
    [self EXCEPT !.answers[i] = Append(@, [code |-> code, value |-> value]),
                 !.callingNum_ = @ - 1,
                 !.onFinished = IF self.callingNum_ - 1 = 0 THEN @ + 1 ELSE @]

Pending(r, i) ==
    /\ proc[r].pc = "processed"
    /\ i \in 1..Len(proc[r].calls)
    /\ proc[r].answers[i] = <<>>

RECURSIVE ApplyPuts(_, _)
\* asyncMultiPut writes the pairs in order
ApplyPuts(kv, data) ==
    IF data = <<>> THEN kv
    ELSE ApplyPuts(KvPut(kv, Head(data).key, Head(data).val), Tail(data))

MultiPutOk(r, i) ==
    /\ Pending(r, i)
    /\ proc[r].calls[i].api = "asyncMultiPut"
    /\ kvstore' = [kvstore EXCEPT ![proc[r].calls[i].part] =
                      ApplyPuts(@, proc[r].calls[i].data)]
    /\ proc' = [proc EXCEPT ![r] = handleAsync(@, i, SUCCEEDED, <<>>)]
    /\ UNCHANGED <<clock, FLAGS_enable_multi_versions, spaceIndexes, workload>>

\* the store fails the call: nothing is written
BackendFails(r, i) ==
    /\ Pending(r, i)
    /\ proc' = [proc EXCEPT ![r] = handleAsync(@, i, E_LEADER_CHANGED, <<>>)]
    /\ UNCHANGED <<clock, FLAGS_enable_multi_versions, spaceIndexes, kvstore, workload>>

\* what the engine answers the reads of one closure with
ReadCodes(w) ==
    IF w.readFaults THEN {SUCCEEDED, E_LEADER_CHANGED} ELSE {SUCCEEDED}

\* asyncAtomicOp: the store runs the closure of lines 48-51 with no other
\* write to the partition in between, applies the batch it returns, and
\* answers; an empty return applies nothing and answers with a failure.
\* The reads the closure makes either all succeed or all fail.
AtomicOp(r, i) ==
    /\ Pending(r, i)
    /\ proc[r].calls[i].api = "asyncAtomicOp"
    /\ \E readCode \in ReadCodes(workload) :
         LET c == proc[r].calls[i]
             run == RunAddEdges(proc[r], kvstore[c.part], readCode,
                                proc[r].version, c.part, c.edges)
             ret == addEdges(proc[r], kvstore[c.part], readCode,
                             proc[r].version, c.part, c.edges)
             code == IF ret = <<>> THEN E_ATOMIC_OP_FAILED ELSE SUCCEEDED
         IN  /\ kvstore' = [kvstore EXCEPT ![c.part] =
                               ApplyBatch(@, decodeBatchValue(ret))]
             /\ proc' = [proc EXCEPT ![r] =
                   [handleAsync(@, i, code, ret) EXCEPT
                       !.lookups = @ + run.lookups,
                       !.decodes = @ + run.decodes,
                       !.readFailures = @ + (IF readCode = SUCCEEDED THEN 0
                                             ELSE run.lookups)]]
    /\ UNCHANGED <<clock, FLAGS_enable_multi_versions, spaceIndexes, workload>>

\* BaseProcessor::onFinished answers the client and deletes the processor
Destroy(r) ==
    /\ proc[r].pc = "processed"
    /\ proc[r].onFinished > 0
    /\ proc' = [proc EXCEPT ![r] = [NewProcessor EXCEPT !.pc = "gone"]]
    /\ UNCHANGED <<clock, FLAGS_enable_multi_versions, spaceIndexes, kvstore,
                   workload>>

Next ==
    \/ \E r \in ReqIds : Process(r)
    \/ \E r \in ReqIds : Destroy(r)
    \/ \E r \in ReqIds : \E i \in 1..MaxEdges : MultiPutOk(r, i)
    \/ \E r \in ReqIds : \E i \in 1..MaxEdges : AtomicOp(r, i)
    \/ \E r \in ReqIds : \E i \in 1..MaxEdges : BackendFails(r, i)

\* one edge identity in one partition, requests in flight together
Init == InitWith(WOne)

Spec == Init /\ [][Next]_vars

\* requests over two partitions
InitParts == InitWith(WParts)

SpecParts == InitParts /\ [][Next]_vars

\* batches of several edge identities in one partition
InitBatch == InitWith(WBatch)

SpecBatch == InitBatch /\ [][Next]_vars

\* reads of the obsolete record that may fail
InitFault == InitWith(WFault)

SpecFault == InitFault /\ [][Next]_vars

\* writes made with and without multi-versioning to one store
InitMixed == InitWith(WMixed)

SpecMixed == InitMixed /\ [][Next]_vars

\* ------------------------------------------------------------------------
\* Reading the store
\* ------------------------------------------------------------------------
AllIndexes == <<Idx1, Idx2>>

\* the keys of partition p that are entries of index for the edge identity e
IndexEntries(p, e, index) ==
    {k \in DOMAIN kvstore[p] :
        IsPrefix(edgeIndexKey(p, index.index_id, e.src, e.ranking, e.dst, <<>>), k)}

\* the primary records of edge identity e in partition p
PrimaryKeys(p, e) ==
    {k \in DOMAIN kvstore[p] :
        IsPrefix(edgePrefix(p, e.src, e.edge_type, e.ranking, e.dst), k)}

AnyIndexKey(p) ==
    \E e \in workload.ids : \E n \in 1..Len(AllIndexes) :
        IndexEntries(p, e, AllIndexes[n]) # {}

Answered(r, i) ==
    /\ proc[r].pc = "processed"
    /\ i \in 1..Len(proc[r].calls)
    /\ proc[r].answers[i] # <<>>

\* ------------------------------------------------------------------------
\* C6  No-index fast path: in a space without edge indexes process() issues
\* for every partition of the request exactly one multi-put whose pairs are,
\* in request order, the edge key under the request's version and the
\* properties of each edge; it makes no atomic operation, no first-match
\* read and no row decoding, and no index key is ever in the store.
\* ------------------------------------------------------------------------
C6_IsPairOf(pair, partId, edge, version) ==
    /\ Len(pair.key) = 40
    /\ FromBytes(SubSeq(pair.key, 1, 4)) = partId
    /\ getSrcId(pair.key) = edge.src
    /\ getEdgeType(pair.key) = edge.edge_type
    /\ getRank(pair.key) = edge.ranking
    /\ getDstId(pair.key) = edge.dst
    /\ SubSeq(pair.key, 33, 40) = version
    /\ pair.val = edge.props

C6_FastPath ==
    spaceIndexes = <<>> =>
        /\ \A p \in Parts : ~AnyIndexKey(p)
        /\ \A r \in ReqIds : proc[r].pc = "processed" =>
            /\ proc[r].lookups = 0 /\ proc[r].decodes = 0
            /\ \A p \in DOMAIN proc[r].parts :
                 Cardinality({i \in 1..Len(proc[r].calls) :
                                 proc[r].calls[i].part = p}) = 1
            /\ \A i \in 1..Len(proc[r].calls) :
                 LET c == proc[r].calls[i]
                     edges == proc[r].parts[c.part]
                 IN  /\ c.api = "asyncMultiPut"
                     /\ c.part \in DOMAIN proc[r].parts
                     /\ Len(c.data) = Len(edges)
                     /\ \A j \in 1..Len(edges) :
                          C6_IsPairOf(c.data[j], c.part, edges[j], proc[r].version)

\* a request over two partitions has been written
C6_Witness ==
    /\ spaceIndexes = <<>>
    /\ \E r \in ReqIds :
         /\ proc[r].pc = "processed"
         /\ DOMAIN proc[r].parts = {1, 2}
         /\ \A i \in 1..2 : Answered(r, i) /\ proc[r].answers[i][1].code = SUCCEEDED
         /\ Cardinality(DOMAIN kvstore[1]) = 1
         /\ Cardinality(DOMAIN kvstore[2]) = 1

\* ------------------------------------------------------------------------
\* C7  Version ordering: with multi-versioning enabled every version tag is
\* MAX_INT64 - t for the clock value t the request read, written most
\* significant byte first; for two requests that read the clock at t1 < t2
\* and write the same edge identity, the two keys share the identity prefix,
\* the key of the t2 write sorts before the key of the t1 write, and once
\* both are written the first match of the prefix is not the t1 record, and
\* the t2 record holds the value of the t2 write.
\* ------------------------------------------------------------------------
\* MAX_INT64 - t, most significant byte first, for t below 65536
C7_Tag(t) ==
    <<127, 255, 255, 255, 255, 255, 255 - (t \div 256), 255 - (t % 256)>>

Clocks == ClockStart..MaxClock

\* the edge identities request r writes in partition p
WrittenIds(r, p) ==
    IF p \in DOMAIN proc[r].parts
    THEN {e \in workload.ids : \E j \in 1..Len(proc[r].parts[p]) :
             LET g == proc[r].parts[p][j]
             IN  <<g.src, g.edge_type, g.ranking, g.dst>>
                     = <<e.src, e.edge_type, e.ranking, e.dst>>}
    ELSE {}

\* the properties of the last occurrence of identity e in r's list for p
LastValue(r, p, e) ==
    LET l == proc[r].parts[p]
        at == {j \in 1..Len(l) :
                  <<l[j].src, l[j].edge_type, l[j].ranking, l[j].dst>>
                      = <<e.src, e.edge_type, e.ranking, e.dst>>}
    IN  l[CHOOSE j \in at : \A k \in at : k <= j].props

AllSucceeded(r) ==
    /\ proc[r].pc = "processed"
    /\ \A i \in 1..Len(proc[r].calls) :
         Answered(r, i) /\ proc[r].answers[i][1].code = SUCCEEDED

C7_VersionOrdering ==
    FLAGS_enable_multi_versions =>
        /\ \A r \in ReqIds : proc[r].pc = "processed" =>
             \E t \in Clocks : proc[r].version = C7_Tag(t)
        /\ \A r1, r2 \in ReqIds : \A t1, t2 \in Clocks :
             ( /\ proc[r1].pc = "processed" /\ proc[r2].pc = "processed"
               /\ t1 < t2
               /\ proc[r1].version = C7_Tag(t1)
               /\ proc[r2].version = C7_Tag(t2) ) =>
             \A p \in Parts : \A e \in WrittenIds(r1, p) \cap WrittenIds(r2, p) :
                 LET prefix == edgePrefix(p, e.src, e.edge_type, e.ranking, e.dst)
                     k1 == prefix \o proc[r1].version
                     k2 == prefix \o proc[r2].version
                 IN  /\ LexLess(k2, k1)
                     /\ (AllSucceeded(r1) /\ AllSucceeded(r2)) =>
                          /\ k1 \in DOMAIN kvstore[p]
                          /\ k2 \in DOMAIN kvstore[p]
                          /\ kvstore[p][k2] = LastValue(r2, p, e)
                          /\ FirstMatch(kvstore[p], prefix) # k1
                          /\ doGetFirstRecord(kvstore[p], SUCCEEDED, prefix).value
                                 = LastValue(r2, p, e)

\* two requests with tags taken at 255 and at 256 have both written the edge,
\* the later one first
C7_Witness ==
    /\ FLAGS_enable_multi_versions
    /\ proc[1].pc = "processed" /\ proc[2].pc = "processed"
    /\ proc[1].version = C7_Tag(255) /\ proc[2].version = C7_Tag(256)
    /\ AllSucceeded(1) /\ AllSucceeded(2)
    /\ Cardinality(PrimaryKeys(1, EdgeX)) = 2
    /\ kvstore[1][edgePrefix(1, 1, 1, 0, 2) \o C7_Tag(255)] = RowShort
    /\ kvstore[1][edgePrefix(1, 1, 1, 0, 2) \o C7_Tag(256)] = RowA

\* ------------------------------------------------------------------------
\* Steps of the store on an atomic operation
\* ------------------------------------------------------------------------
\* this step answers call i of request r, an atomic operation, with code
AtomicAnswered(r, i, code) ==
    /\ Pending(r, i)
    /\ proc[r].calls[i].api = "asyncAtomicOp"
    /\ proc'[r].pc = "processed"
    /\ proc'[r].answers[i] # <<>>
    /\ proc'[r].answers[i][1].code = code

\* the index key of value val of identity e under index, <<>> when the value
\* does not decode or lacks a field of the index
IndexKeyOf(p, e, index, val) ==
    LET reader == getEdgePropReader(val, e.edge_type)
        values == collectIndexValues(reader, index.fields)
    IN  IF reader.valid /\ values.ok
        THEN edgeIndexKey(p, index.index_id, e.src, e.ranking, e.dst, values.value)
        ELSE <<>>

\* the value a newest-first scan of identity e returns, <<>> when there is none
NewestValue(kv, p, e) ==
    doGetFirstRecord(kv, SUCCEEDED,
                     edgePrefix(p, e.src, e.edge_type, e.ranking, e.dst)).value

\* ------------------------------------------------------------------------
\* C1  Index replacement: when an atomic operation of a request with
\* ignoreExistedIndex false is applied successfully and it updates an
\* identity whose stored value has the index key IK_old to a value whose
\* index key is IK_new # IK_old, then afterwards IK_old is absent, IK_new is
\* present and the newest primary record of the identity holds the new value.
\* ------------------------------------------------------------------------
C1_Replaced(r, i) ==
    LET p == proc[r].calls[i].part
    IN  \A e \in WrittenIds(r, p) : \A n \in 1..Len(proc[r].indexes_) :
            LET index == proc[r].indexes_[n]
                old == NewestValue(kvstore[p], p, e)
                new == LastValue(r, p, e)
                ikOld == IndexKeyOf(p, e, index, old)
                ikNew == IndexKeyOf(p, e, index, new)
            IN  ( /\ index.edge_type = e.edge_type
                  /\ old # <<>>
                  /\ ikOld # <<>> /\ ikNew # <<>> /\ ikOld # ikNew
                  /\ ikOld \in DOMAIN kvstore[p] ) =>
                ( /\ ikOld \notin DOMAIN kvstore'[p]
                  /\ ikNew \in DOMAIN kvstore'[p]
                  /\ NewestValue(kvstore'[p], p, e) = new )

C1_IndexReplacement ==
    [][\A r \in ReqIds : \A i \in 1..MaxEdges :
          (AtomicAnswered(r, i, SUCCEEDED) /\ ~proc[r].ignoreExistedIndex_)
              => C1_Replaced(r, i)]_vars

\* ------------------------------------------------------------------------
\* C2  Race-freedom of the read-modify-write: when the requests in flight
\* together all mutate an identity on the indexed path with
\* ignoreExistedIndex false, and all their atomic operations have been
\* applied successfully (in whatever order the store ran them), then for
\* every index of the edge type the entries present for the identity are
\* exactly the one derived from the value a newest-first scan returns.
\* ------------------------------------------------------------------------
\* the entry index should hold for identity e given its newest value
ExpectedEntries(p, e, index) ==
    LET ik == IndexKeyOf(p, e, index, NewestValue(kvstore[p], p, e))
    IN  IF ik = <<>> THEN {} ELSE {ik}

IndexedNoIgnore(r) ==
    /\ proc[r].pc = "processed"
    /\ proc[r].indexes_ # <<>>
    /\ ~proc[r].ignoreExistedIndex_

C2_RaceFree ==
    LET live == {r \in ReqIds : proc[r].pc = "processed"}
    IN  ( /\ Cardinality(live) >= 2
          /\ \A r \in ReqIds : proc[r].pc # "gone"
          /\ \A r \in live : IndexedNoIgnore(r) /\ AllSucceeded(r) ) =>
        \A p \in Parts : \A e \in workload.ids :
            (\A r \in live : e \in WrittenIds(r, p)) =>
            \A n \in 1..Len(spaceIndexes) :
                spaceIndexes[n].edge_type = e.edge_type =>
                    IndexEntries(p, e, spaceIndexes[n])
                        = ExpectedEntries(p, e, spaceIndexes[n])

\* ------------------------------------------------------------------------
\* C3  Fail-fast on an unreadable row: when the store runs the atomic
\* operation of a partition and some surviving edge of an indexed edge type
\* has a new property blob that does not decode, or (ignoreExistedIndex
\* false) a stored obsolete record that does not decode, then addEdges
\* returns the empty string, the partition's store is left exactly as it
\* was, and the partition is answered with a failure.
\* ------------------------------------------------------------------------
OwnsIndex(r, e) ==
    \E n \in 1..Len(proc[r].indexes_) : proc[r].indexes_[n].edge_type = e.edge_type

\* some surviving edge of call i of request r meets an unreadable row
C3_Unreadable(r, i) ==
    LET p == proc[r].calls[i].part
    IN  \E e \in WrittenIds(r, p) :
            /\ OwnsIndex(r, e)
            /\ \/ ~getEdgePropReader(LastValue(r, p, e), e.edge_type).valid
               \/ /\ ~proc[r].ignoreExistedIndex_
                  /\ NewestValue(kvstore[p], p, e) # <<>>
                  /\ ~getEdgePropReader(NewestValue(kvstore[p], p, e),
                                        e.edge_type).valid

C3_FailFast ==
    [][\A r \in ReqIds : \A i \in 1..MaxEdges :
          ( /\ Pending(r, i)
            /\ proc[r].calls[i].api = "asyncAtomicOp"
            /\ proc'[r].pc = "processed"
            /\ proc'[r].answers[i] # <<>>
            /\ C3_Unreadable(r, i) ) =>
          ( /\ kvstore' = kvstore
            /\ proc'[r].answers[i][1].code # SUCCEEDED
            /\ proc'[r].answers[i][1].value = <<>>
            /\ addEdges(proc[r], kvstore[proc[r].calls[i].part], SUCCEEDED,
                        proc[r].version, proc[r].calls[i].part,
                        proc[r].calls[i].edges) = <<>> )]_vars

\* a batch whose first edge in key order is readable and whose second is
\* not has been answered with the atomic-operation failure
C3_Witness ==
    \E r \in ReqIds :
        /\ proc[r].pc = "processed"
        /\ proc[r].indexes_ # <<>>
        /\ Len(proc[r].calls) = 1
        /\ proc[r].calls[1].edges =
              <<[src |-> 1, edge_type |-> 1, ranking |-> 0, dst |-> 2, props |-> RowA],
                [src |-> 1, edge_type |-> 1, ranking |-> 0, dst |-> 3, props |-> RowBad]>>
        /\ proc[r].answers[1] = <<[code |-> E_ATOMIC_OP_FAILED, value |-> <<>>]>>
        /\ proc[r].decodes >= 2

\* ------------------------------------------------------------------------
\* C4  Last-write-wins dedup: the batch an atomic operation returned holds,
\* for every edge identity of the partition's list, exactly one primary Put,
\* whose value is the properties of the identity's last occurrence in
\* request order; it holds no other primary Put; and for every index of the
\* identity's edge type it holds at most one Remove and at most one Put, the
\* Put being the index key of that last value.
\* ------------------------------------------------------------------------
\* the positions of batch ops that are op on a key starting with prefix
OpsAt(ops, op, prefix) ==
    {j \in 1..Len(ops) : ops[j].op = op /\ IsPrefix(prefix, ops[j].key)}

C4_BatchOf(r, i) ==
    LET p == proc[r].calls[i].part
        ops == decodeBatchValue(proc[r].answers[i][1].value)
        ids == WrittenIds(r, p)
    IN  /\ \A e \in ids :
             LET pk == edgePrefix(p, e.src, e.edge_type, e.ranking, e.dst)
                 at == OpsAt(ops, "put", pk)
             IN  /\ Cardinality(at) = 1
                 /\ \A j \in at : /\ ops[j].key = pk \o proc[r].version
                                  /\ ops[j].val = LastValue(r, p, e)
                 /\ OpsAt(ops, "remove", pk) = {}
                 /\ \A n \in 1..Len(AllIndexes) :
                      LET index == AllIndexes[n]
                          ip == edgeIndexKey(p, index.index_id, e.src,
                                             e.ranking, e.dst, <<>>)
                          ik == IndexKeyOf(p, e, index, LastValue(r, p, e))
                          puts == OpsAt(ops, "put", ip)
                      IN  index.edge_type = e.edge_type =>
                          /\ Cardinality(OpsAt(ops, "remove", ip)) <= 1
                          /\ Cardinality(puts) <= 1
                          /\ \A j \in puts : ops[j].key = ik /\ ops[j].val = <<>>
                          /\ (OwnsIndex(r, e) /\ ik # <<>>) => puts # {}
        \* every operation belongs to an identity of the list
        /\ \A j \in 1..Len(ops) : \E e \in ids :
             \/ IsPrefix(edgePrefix(p, e.src, e.edge_type, e.ranking, e.dst),
                         ops[j].key)
             \/ \E n \in 1..Len(AllIndexes) :
                  /\ AllIndexes[n].edge_type = e.edge_type
                  /\ IsPrefix(edgeIndexKey(p, AllIndexes[n].index_id, e.src,
                                           e.ranking, e.dst, <<>>), ops[j].key)

C4_Dedup ==
    \A r \in ReqIds : \A i \in 1..MaxEdges :
        ( /\ Answered(r, i)
          /\ proc[r].calls[i].api = "asyncAtomicOp"
          /\ proc[r].answers[i][1].value # <<>> ) => C4_BatchOf(r, i)

\* a list with a malformed occurrence of an identity followed by a readable
\* one has been applied
C4_Witness ==
    \E r \in ReqIds :
        /\ proc[r].pc = "processed"
        /\ proc[r].indexes_ # <<>>
        /\ Len(proc[r].calls) = 1
        /\ proc[r].calls[1].edges =
              <<[src |-> 1, edge_type |-> 1, ranking |-> 0, dst |-> 2, props |-> RowBad],
                [src |-> 1, edge_type |-> 1, ranking |-> 0, dst |-> 2, props |-> RowA]>>
        /\ proc[r].answers[1] # <<>>
        /\ proc[r].answers[1][1].code = SUCCEEDED
        /\ NewestValue(kvstore[1], 1, EdgeX) = RowA

\* ------------------------------------------------------------------------
\* C5  ignoreExistedIndex semantics: a step of the store that answers a call
\* of a request with ignoreExistedIndex set makes no first-match read, the
\* batch it applies holds no Remove, and every key that was in the
\* partition's store before the step, index entries of the updated
\* identities included, is still there after it.
\* ------------------------------------------------------------------------
C5_IgnoreExisted ==
    [][\A r \in ReqIds : \A i \in 1..MaxEdges :
          ( /\ Pending(r, i)
            /\ proc[r].ignoreExistedIndex_
            /\ proc'[r].pc = "processed"
            /\ proc'[r].answers[i] # <<>> ) =>
          LET p == proc[r].calls[i].part
              ops == decodeBatchValue(proc'[r].answers[i][1].value)
          IN  /\ proc'[r].lookups = 0
              /\ \A j \in 1..Len(ops) : ops[j].op # "remove"
              /\ \A k \in DOMAIN kvstore[p] : k \in DOMAIN kvstore'[p]]_vars

\* after an update made with the flag set the identity has two entries in
\* the index on f1: the stale one and the new one
C5_Witness ==
    /\ proc[2].pc = "processed"
    /\ proc[2].ignoreExistedIndex_
    /\ proc[2].indexes_ # <<>>
    /\ AllSucceeded(2)
    /\ Len(proc[2].calls) = 1
    /\ IndexEntries(1, EdgeX, Idx1) =
          {IndexKeyOf(1, EdgeX, Idx1, RowA), IndexKeyOf(1, EdgeX, Idx1, RowShort)}
    /\ NewestValue(kvstore[1], 1, EdgeX) = RowShort

\* ------------------------------------------------------------------------
\* C8  Index/primary consistency.  As claimed: in every reachable store
\* state, for every identity and every index of its edge type, an index
\* entry of the identity exists if and only if the identity has a stored
\* value and the newest one decodes.
\* ------------------------------------------------------------------------
Decodes(val, e) ==
    val # <<>> /\ getEdgePropReader(val, e.edge_type).valid

C8_Consistency ==
    \A p \in Parts : \A e \in workload.ids : \A n \in 1..Len(spaceIndexes) :
        spaceIndexes[n].edge_type = e.edge_type =>
            ( IndexEntries(p, e, spaceIndexes[n]) # {}
                <=> Decodes(NewestValue(kvstore[p], p, e), e) )

\* C8 as amended: an index entry of an identity exists only if the identity
\* has a stored value; and when a request's atomic batch is applied, then for
\* every identity it writes and every index of the edge type whose fields the
\* written value has, the entry derived from that value is present after the
\* step, together with the primary record.
C8_EntryHasValue ==
    \A p \in Parts : \A e \in workload.ids : \A n \in 1..Len(AllIndexes) :
        ( /\ AllIndexes[n].edge_type = e.edge_type
          /\ IndexEntries(p, e, AllIndexes[n]) # {} ) =>
            /\ PrimaryKeys(p, e) # {}
            /\ NewestValue(kvstore[p], p, e) # <<>>

C8_Applied(r, i) ==
    LET p == proc[r].calls[i].part
    IN  \A e \in WrittenIds(r, p) :
            /\ kvstore'[p][edgePrefix(p, e.src, e.edge_type, e.ranking, e.dst)
                              \o proc[r].version] = LastValue(r, p, e)
            /\ \A n \in 1..Len(proc[r].indexes_) :
                 LET index == proc[r].indexes_[n]
                     ik == IndexKeyOf(p, e, index, LastValue(r, p, e))
                 IN  (index.edge_type = e.edge_type /\ ik # <<>>) =>
                         /\ ik \in DOMAIN kvstore'[p]
                         /\ kvstore'[p][ik] = <<>>

C8_Amended ==
    /\ []C8_EntryHasValue
    /\ [][\A r \in ReqIds : \A i \in 1..MaxEdges :
             AtomicAnswered(r, i, SUCCEEDED) => C8_Applied(r, i)]_vars

\* a value with both indexed fields has been written on the indexed path and
\* has its two entries
C8_Witness ==
    /\ proc[1].pc = "processed"
    /\ proc[1].indexes_ = <<Idx1, Idx2>>
    /\ AllSucceeded(1)
    /\ NewestValue(kvstore[1], 1, EdgeX) = RowA
    /\ IndexEntries(1, EdgeX, Idx1) = {IndexKeyOf(1, EdgeX, Idx1, RowA)}
    /\ IndexEntries(1, EdgeX, Idx2) = {IndexKeyOf(1, EdgeX, Idx2, RowA)}

\* ------------------------------------------------------------------------
\* C9  Partition-scoped failure: a step that answers the atomic operation of
\* one partition of a request changes no other partition's store and no
\* other partition's answer; the batch it applies holds only keys of its own
\* partition and of its own edges; it is answered with the atomic-operation
\* failure exactly when one of its own rows is unreadable, whatever the
\* other partitions of the request were answered; and when it succeeds its
\* primary records are in the store.
\* ------------------------------------------------------------------------
C9_Step(r, i) ==
    LET p == proc[r].calls[i].part
        a == proc'[r].answers[i][1]
        ops == decodeBatchValue(a.value)
    IN  /\ \A q \in Parts \ {p} : kvstore'[q] = kvstore[q]
        /\ \A j \in 1..Len(proc[r].calls) :
             j # i => proc'[r].answers[j] = proc[r].answers[j]
        /\ \A k \in 1..Len(ops) :
             /\ FromBytes(SubSeq(ops[k].key, 1, 4)) = p
             /\ \E e \in WrittenIds(r, p) :
                  \/ IsPrefix(edgePrefix(p, e.src, e.edge_type, e.ranking, e.dst),
                              ops[k].key)
                  \/ \E n \in 1..Len(AllIndexes) :
                        /\ AllIndexes[n].edge_type = e.edge_type
                        /\ IsPrefix(edgeIndexKey(p, AllIndexes[n].index_id, e.src,
                                                 e.ranking, e.dst, <<>>), ops[k].key)
        /\ C3_Unreadable(r, i) => a.code # SUCCEEDED
        /\ ~C3_Unreadable(r, i) => a.code \in {SUCCEEDED, E_LEADER_CHANGED}
        /\ a.code = SUCCEEDED =>
             \A e \in WrittenIds(r, p) :
                 NewestValue(kvstore'[p], p, e) = LastValue(r, p, e)
        /\ a.code # SUCCEEDED => kvstore'[p] = kvstore[p]

C9_PartitionScoped ==
    [][\A r \in ReqIds : \A i \in 1..MaxEdges :
          ( /\ Pending(r, i)
            /\ proc[r].calls[i].api = "asyncAtomicOp"
            /\ proc'[r].pc = "processed"
            /\ proc'[r].answers[i] # <<>> ) => C9_Step(r, i)]_vars

\* partition 1 aborted on a malformed row, partition 2 of the same request
\* was applied
C9_Witness ==
    \E r \in ReqIds :
        /\ proc[r].pc = "processed"
        /\ DOMAIN proc[r].parts = {1, 2}
        /\ proc[r].calls[1].part = 1 /\ proc[r].calls[2].part = 2
        /\ proc[r].answers[1] = <<[code |-> E_ATOMIC_OP_FAILED, value |-> <<>>]>>
        /\ Answered(r, 2) /\ proc[r].answers[2][1].code = SUCCEEDED
        /\ kvstore[1] = <<>>
        /\ NewestValue(kvstore[2], 2, EdgeX) = RowA

\* ------------------------------------------------------------------------
\* C10  Completion: callingNum_ starts at the number of partitions of the
\* request and counts the results still to come, every partition has one
\* call and at most one recorded result code, and the request is completed
\* (onFinished has run, once) exactly when as many results as partitions
\* have been recorded.
\* ------------------------------------------------------------------------
C10_Recorded(r) ==
    Cardinality({i \in 1..Len(proc[r].calls) : proc[r].answers[i] # <<>>})

C10_Submitted(r) ==
    /\ Len(proc[r].calls) = Cardinality(DOMAIN proc[r].parts)
    /\ \A p \in DOMAIN proc[r].parts :
         Cardinality({i \in 1..Len(proc[r].calls) : proc[r].calls[i].part = p}) = 1
    /\ \A i \in 1..Len(proc[r].calls) :
         /\ Len(proc[r].answers[i]) <= 1
         /\ proc[r].calls[i].api
              = IF proc[r].indexes_ = <<>> THEN "asyncMultiPut" ELSE "asyncAtomicOp"
    /\ proc[r].callingNum_ + C10_Recorded(r) = Cardinality(DOMAIN proc[r].parts)

C10_Completion ==
    \A r \in ReqIds :
        proc[r].pc = "processed" =>
            /\ C10_Submitted(r)
            /\ proc[r].onFinished <= 1
            /\ proc[r].onFinished = 1
                 <=> C10_Recorded(r) = Cardinality(DOMAIN proc[r].parts)

\* ------------------------------------------------------------------------
\* C11  Backend failures are reported verbatim: a step that answers a
\* partition's call records exactly one result code for it; when the read of
\* the obsolete record failed while the closure ran, the code recorded is
\* the code of that failure; and the closure reads at most once per edge
\* identity it writes (no retry).
\* ------------------------------------------------------------------------
C11_Answer(r, i) ==
    LET p == proc[r].calls[i].part
        a == proc'[r].answers[i][1]
    IN  /\ Len(proc'[r].answers[i]) = 1
        /\ proc'[r].lookups - proc[r].lookups <= Cardinality(WrittenIds(r, p))
        /\ proc'[r].readFailures > proc[r].readFailures =>
             a.code = E_LEADER_CHANGED

C11_Verbatim ==
    [][\A r \in ReqIds : \A i \in 1..MaxEdges :
          ( /\ Pending(r, i)
            /\ proc'[r].pc = "processed"
            /\ proc'[r].answers[i] # <<>> ) => C11_Answer(r, i)]_vars

\* ------------------------------------------------------------------------
\* C12  Field-extraction failure is index-local: when an atomic operation
\* runs and no row it meets is malformed, the batch is applied whatever
\* fields the rows lack; for every identity written and every index of its
\* edge type the batch holds the Put of the new index key exactly when the
\* new row has the index's fields, and the Remove of the obsolete index key
\* exactly when an obsolete row was looked up and has the index's fields;
\* and the primary Put of the identity is in the batch.
\* ------------------------------------------------------------------------
C12_Batch(r, i) ==
    LET p == proc[r].calls[i].part
        a == proc'[r].answers[i][1]
        ops == decodeBatchValue(a.value)
    IN  /\ a.code = SUCCEEDED
        /\ \A e \in WrittenIds(r, p) :
             LET new == LastValue(r, p, e)
                 old == IF proc[r].ignoreExistedIndex_ THEN <<>>
                        ELSE NewestValue(kvstore[p], p, e)
                 pk == edgeKey(p, e.src, e.edge_type, e.ranking, e.dst,
                               proc[r].version)
             IN  /\ \E j \in 1..Len(ops) : ops[j] = BatchPut(pk, new)
                 /\ \A n \in 1..Len(proc[r].indexes_) :
                      LET index == proc[r].indexes_[n]
                          ip == edgeIndexKey(p, index.index_id, e.src,
                                             e.ranking, e.dst, <<>>)
                          ni == IndexKeyOf(p, e, index, new)
                          oi == IndexKeyOf(p, e, index, old)
                      IN  index.edge_type = e.edge_type =>
                            /\ {ops[j].key : j \in OpsAt(ops, "put", ip)}
                                 = IF ni = <<>> THEN {} ELSE {ni}
                            /\ {ops[j].key : j \in OpsAt(ops, "remove", ip)}
                                 = IF oi = <<>> THEN {} ELSE {oi}

C12_IndexLocal ==
    [][\A r \in ReqIds : \A i \in 1..MaxEdges :
          ( /\ Pending(r, i)
            /\ proc[r].calls[i].api = "asyncAtomicOp"
            /\ proc'[r].pc = "processed"
            /\ proc'[r].answers[i] # <<>>
            /\ proc'[r].answers[i][1].code # E_LEADER_CHANGED
            /\ ~C3_Unreadable(r, i) ) => C12_Batch(r, i)]_vars

\* a row without f2 has replaced a full row: the batch removes both obsolete
\* entries, puts the entry of the index on f1 only, and writes the row
C12_Witness ==
    \E r \in ReqIds :
        /\ proc[r].pc = "processed"
        /\ Len(proc[r].calls) = 1
        /\ Answered(r, 1)
        /\ proc[r].answers[1][1].code = SUCCEEDED
        /\ decodeBatchValue(proc[r].answers[1][1].value) =
             << BatchRemove(IndexKeyOf(1, EdgeX, Idx1, RowA)),
                BatchPut(IndexKeyOf(1, EdgeX, Idx1, RowShort), <<>>),
                BatchRemove(IndexKeyOf(1, EdgeX, Idx2, RowA)),
                BatchPut(edgeKey(1, 1, 1, 0, 2, proc[r].version), RowShort) >>
        /\ IndexEntries(1, EdgeX, Idx2) = {}
        /\ IndexEntries(1, EdgeX, Idx1) = {IndexKeyOf(1, EdgeX, Idx1, RowShort)}

\* ------------------------------------------------------------------------
\* C13  Metadata-unavailable degrade: a request whose getEdgeIndexes lookup
\* failed has an empty index set and one multi-put per partition holding the
\* primary pairs of that partition's edges, and it makes no read and no
\* decode; a step answering one of its calls either applies exactly those
\* puts and reports SUCCEEDED, or is a failure of the store that writes
\* nothing; the atomic-operation failure is never reported for it.
\* ------------------------------------------------------------------------
C13_Degraded(r) ==
    /\ proc[r].indexes_ = <<>>
    /\ proc[r].lookups = 0
    /\ proc[r].decodes = 0
    /\ Len(proc[r].calls) = Cardinality(DOMAIN proc[r].parts)
    /\ \A i \in 1..Len(proc[r].calls) :
         LET p == proc[r].calls[i].part
         IN  /\ p \in DOMAIN proc[r].parts
             /\ proc[r].calls[i] =
                  [api |-> "asyncMultiPut", part |-> p, edges |-> <<>>,
                   data |-> [j \in 1..Len(proc[r].parts[p]) |->
                              LET e == proc[r].parts[p][j]
                              IN  [key |-> edgeKey(p, e.src, e.edge_type, e.ranking,
                                                   e.dst, proc[r].version),
                                   val |-> e.props]]]

C13_Answer(r, i) ==
    LET p == proc[r].calls[i].part
        a == proc'[r].answers[i][1]
    IN  /\ a.code \in {SUCCEEDED, E_LEADER_CHANGED}
        /\ a.code = E_LEADER_CHANGED => kvstore' = kvstore
        /\ a.code = SUCCEEDED =>
             /\ \A k \in DOMAIN kvstore[p] : k \in DOMAIN kvstore'[p]
             /\ \A k \in DOMAIN kvstore'[p] \ DOMAIN kvstore[p] :
                  \E e \in WrittenIds(r, p) :
                      k = edgeKey(p, e.src, e.edge_type, e.ranking, e.dst,
                                  proc[r].version)
             /\ \A e \in WrittenIds(r, p) :
                  kvstore'[p][edgeKey(p, e.src, e.edge_type, e.ranking, e.dst,
                                      proc[r].version)] = LastValue(r, p, e)

C13_Degrade ==
    /\ [](\A r \in ReqIds :
            (proc[r].pc = "processed" /\ ~proc[r].iRetOk) => C13_Degraded(r))
    /\ [][\A r \in ReqIds : \A i \in 1..MaxEdges :
            ( /\ Pending(r, i)
              /\ ~proc[r].iRetOk
              /\ proc'[r].pc = "processed"
              /\ proc'[r].answers[i] # <<>> ) => C13_Answer(r, i)]_vars

\* the space has indexes, the lookup failed, and both partitions of the
\* request, one of them writing a malformed row, were applied without any
\* index entry
C13_Witness ==
    \E r \in ReqIds :
        /\ spaceIndexes # <<>>
        /\ proc[r].pc = "processed"
        /\ ~proc[r].iRetOk
        /\ DOMAIN proc[r].parts = {1, 2}
        /\ proc[r].parts[1][1].props = RowBad
        /\ proc[r].parts[2][1].props = RowA
        /\ AllSucceeded(r)
        /\ NewestValue(kvstore[1], 1, EdgeX) = RowBad
        /\ NewestValue(kvstore[2], 2, EdgeX) = RowA
        /\ ~AnyIndexKey(1) /\ ~AnyIndexKey(2)

\* ------------------------------------------------------------------------
\* C14  Batch operation order.  As claimed: in every batch an atomic
\* operation returned, the operations of one edge identity are contiguous
\* and end with its one primary Put, and every Remove of an index entry is
\* immediately followed by the Put of the new entry of the same index.
\* ------------------------------------------------------------------------
\* the positions of the operations of identity e in the batch ops
C14_OpsOf(ops, p, e) ==
    {j \in 1..Len(ops) :
        \/ IsPrefix(edgePrefix(p, e.src, e.edge_type, e.ranking, e.dst),
                    ops[j].key)
        \/ \E n \in 1..Len(AllIndexes) :
             /\ AllIndexes[n].edge_type = e.edge_type
             /\ IsPrefix(edgeIndexKey(p, AllIndexes[n].index_id, e.src,
                                      e.ranking, e.dst, <<>>), ops[j].key)}

\* the operations of an identity are contiguous, the last one is its primary
\* Put and there is no other operation on its primary keys
C14_EdgeBlocks(r, ops, p) ==
    \A e \in WrittenIds(r, p) :
        LET mine == C14_OpsOf(ops, p, e)
            pk == edgeKey(p, e.src, e.edge_type, e.ranking, e.dst, proc[r].version)
        IN  /\ mine # {}
            /\ \A j, k \in mine : \A m \in j..k : m \in mine
            /\ \A j \in mine :
                 (\A k \in mine : k <= j) <=> ops[j] = BatchPut(pk, LastValue(r, p, e))

C14_RemoveThenPut(ops, p, e) ==
    \A n \in 1..Len(AllIndexes) :
        LET ip == edgeIndexKey(p, AllIndexes[n].index_id, e.src, e.ranking,
                               e.dst, <<>>)
        IN  AllIndexes[n].edge_type = e.edge_type =>
              \A j \in OpsAt(ops, "remove", ip) :
                  /\ j + 1 <= Len(ops)
                  /\ j + 1 \in OpsAt(ops, "put", ip)

C14_Order ==
    \A r \in ReqIds : \A i \in 1..MaxEdges :
        ( /\ Answered(r, i)
          /\ proc[r].calls[i].api = "asyncAtomicOp"
          /\ proc[r].answers[i][1].value # <<>> ) =>
        LET p == proc[r].calls[i].part
            ops == decodeBatchValue(proc[r].answers[i][1].value)
        IN  /\ C14_EdgeBlocks(r, ops, p)
            /\ \A e \in WrittenIds(r, p) : C14_RemoveThenPut(ops, p, e)

\* As it holds: the Remove of an index, when the Put of the same index is
\* emitted too, is immediately before that Put; when the new row lacks the
\* index's fields the Remove stands alone, followed by the operations of the
\* next index or by the primary Put.
C14_RemoveBeforePut(ops, p, e) ==
    \A n \in 1..Len(AllIndexes) :
        LET ip == edgeIndexKey(p, AllIndexes[n].index_id, e.src, e.ranking,
                               e.dst, <<>>)
        IN  AllIndexes[n].edge_type = e.edge_type =>
              /\ \A j \in OpsAt(ops, "remove", ip) :
                   \A k \in OpsAt(ops, "put", ip) : k = j + 1
              /\ \A j \in OpsAt(ops, "remove", ip) :
                   /\ j + 1 <= Len(ops)
                   /\ ops[j + 1].op = "put" \/ ~IsPrefix(ip, ops[j + 1].key)
                   /\ j + 1 \in C14_OpsOf(ops, p, e)

C14_Amended ==
    \A r \in ReqIds : \A i \in 1..MaxEdges :
        ( /\ Answered(r, i)
          /\ proc[r].calls[i].api = "asyncAtomicOp"
          /\ proc[r].answers[i][1].value # <<>> ) =>
        LET p == proc[r].calls[i].part
            ops == decodeBatchValue(proc[r].answers[i][1].value)
        IN  /\ C14_EdgeBlocks(r, ops, p)
            /\ \A e \in WrittenIds(r, p) : C14_RemoveBeforePut(ops, p, e)

\* a batch that replaces the full rows of two identities: per identity a
\* Remove and a Put for each index, then the primary Put
C14_Witness ==
    \E r \in ReqIds :
        /\ Answered(r, 1)
        /\ proc[r].calls[1].api = "asyncAtomicOp"
        /\ LET ops == decodeBatchValue(proc[r].answers[1][1].value)
           IN  /\ Len(ops) = 10
               /\ [j \in 1..10 |-> ops[j].op] =
                    <<"remove", "put", "remove", "put", "put",
                      "remove", "put", "remove", "put", "put">>
               /\ C14_OpsOf(ops, 1, EdgeX) = 1..5
               /\ C14_OpsOf(ops, 1, EdgeX2) = 6..10

\* ------------------------------------------------------------------------
\* C15  One version per request: the version of a processed request is the
\* tag of one clock value not later than the current clock (the sentinel
\* when multi-versioning is off); every key in the multi-puts of the request
\* and every primary Put in the batches its atomic operations returned ends
\* with that version, in every partition; and every key a step of the
\* request adds to a store does.
\* ------------------------------------------------------------------------
C15_Suffix(key) ==
    SubSeq(key, Len(key) - 7, Len(key))

C15_OneTag(r) ==
    /\ IF FLAGS_enable_multi_versions
       THEN \E t \in ClockStart..clock : proc[r].version = VersionTag(TRUE, t)
       ELSE proc[r].version = VersionTag(FALSE, clock)
    /\ \A i \in 1..Len(proc[r].calls) :
         LET c == proc[r].calls[i]
         IN  /\ \A j \in 1..Len(c.data) :
                  /\ Len(c.data[j].key) = 40
                  /\ C15_Suffix(c.data[j].key) = proc[r].version
             /\ (c.api = "asyncAtomicOp" /\ proc[r].answers[i] # <<>>) =>
                  LET ops == decodeBatchValue(proc[r].answers[i][1].value)
                  IN  \A j \in 1..Len(ops) :
                          (\E e \in WrittenIds(r, c.part) :
                              IsPrefix(edgePrefix(c.part, e.src, e.edge_type,
                                                  e.ranking, e.dst), ops[j].key))
                          => /\ Len(ops[j].key) = 40
                             /\ C15_Suffix(ops[j].key) = proc[r].version

C15_OneVersion ==
    /\ [](\A r \in ReqIds : proc[r].pc = "processed" => C15_OneTag(r))
    /\ [][\A r \in ReqIds : \A i \in 1..MaxEdges :
            ( /\ Pending(r, i)
              /\ proc'[r].pc = "processed"
              /\ proc'[r].answers[i] # <<>> ) =>
            LET p == proc[r].calls[i].part
            IN  \A k \in DOMAIN kvstore'[p] \ DOMAIN kvstore[p] :
                    (\E e \in WrittenIds(r, p) :
                        IsPrefix(edgePrefix(p, e.src, e.edge_type, e.ranking,
                                            e.dst), k))
                    => C15_Suffix(k) = proc[r].version]_vars

\* with multi-versioning on, a request over two partitions has written its
\* edge in both with the one tag it took at clock 256
C15_Witness ==
    \E r \in ReqIds :
        /\ FLAGS_enable_multi_versions
        /\ proc[r].pc = "processed"
        /\ DOMAIN proc[r].parts = {1, 2}
        /\ proc[r].version = VersionTag(TRUE, MaxClock)
        /\ AllSucceeded(r)
        /\ edgeKey(1, 1, 1, 0, 2, proc[r].version) \in DOMAIN kvstore[1]
        /\ edgeKey(2, 1, 1, 0, 2, proc[r].version) \in DOMAIN kvstore[2]

\* ------------------------------------------------------------------------
\* C16  Sentinel version.  As claimed: the requests made with
\* multi-versioning off all carry one constant version, so an identity
\* written only by them has one primary record, holding the value last
\* applied; and the key with the sentinel sorts after the key of every write
\* to the same identity made with multi-versioning on.
\* ------------------------------------------------------------------------
C16_SentinelTag ==
    VersionTag(FALSE, ClockStart)

C16_OneRecord ==
    /\ \A t \in Clocks : VersionTag(FALSE, t) = C16_SentinelTag
    /\ \A p \in Parts : \A e \in workload.ids :
         (\A k \in PrimaryKeys(p, e) : C15_Suffix(k) = C16_SentinelTag)
             => Cardinality(PrimaryKeys(p, e)) <= 1

C16_OldestSorting ==
    \A p \in Parts : \A e \in workload.ids : \A k1, k2 \in PrimaryKeys(p, e) :
        (C15_Suffix(k2) = C16_SentinelTag /\ C15_Suffix(k1) # C16_SentinelTag)
            => LexLess(k1, k2)

C16_Sentinel ==
    /\ [](C16_OneRecord /\ C16_OldestSorting)
    /\ [][\A r \in ReqIds : \A i \in 1..MaxEdges :
            ( /\ Pending(r, i)
              /\ proc[r].version = C16_SentinelTag
              /\ proc'[r].pc = "processed"
              /\ proc'[r].answers[i] # <<>>
              /\ proc'[r].answers[i][1].code = SUCCEEDED ) =>
            LET p == proc[r].calls[i].part
            IN  \A e \in WrittenIds(r, p) :
                    kvstore'[p][edgeKey(p, e.src, e.edge_type, e.ranking, e.dst,
                                        C16_SentinelTag)] = LastValue(r, p, e)]_vars

\* ------------------------------------------------------------------------
\* C17  Edges of un-indexed types in an indexed space: a step that runs the
\* atomic operation of a request makes at most one lookup and two decodes
\* per identity whose edge type owns an index, and none for the others; it
\* reports the atomic-operation failure only when an identity of an indexed
\* type meets an unreadable row; and the batch it returns holds, for every
\* identity of a type without index, exactly one operation, the primary Put
\* of its last value, decodable or not.
\* ------------------------------------------------------------------------
C17_Indexed(r, p) ==
    {e \in WrittenIds(r, p) : OwnsIndex(r, e)}

C17_Step(r, i) ==
    LET p == proc[r].calls[i].part
        a == proc'[r].answers[i][1]
        ops == decodeBatchValue(a.value)
    IN  /\ proc'[r].lookups - proc[r].lookups <= Cardinality(C17_Indexed(r, p))
        /\ proc'[r].decodes - proc[r].decodes <= 2 * Cardinality(C17_Indexed(r, p))
        /\ a.code = E_ATOMIC_OP_FAILED => C3_Unreadable(r, i)
        /\ a.code = SUCCEEDED =>
             \A e \in WrittenIds(r, p) \ C17_Indexed(r, p) :
                 \E j \in 1..Len(ops) :
                     /\ C14_OpsOf(ops, p, e) = {j}
                     /\ ops[j] = BatchPut(edgeKey(p, e.src, e.edge_type, e.ranking,
                                                  e.dst, proc[r].version),
                                          LastValue(r, p, e))

C17_UnindexedType ==
    [][\A r \in ReqIds : \A i \in 1..MaxEdges :
          ( /\ Pending(r, i)
            /\ proc[r].calls[i].api = "asyncAtomicOp"
            /\ proc'[r].pc = "processed"
            /\ proc'[r].answers[i] # <<>> ) => C17_Step(r, i)]_vars

\* an edge of the indexed type and an edge of the type without index that
\* carries a malformed row were applied in one batch, with the one lookup
\* and the one decode of the indexed edge
C17_Witness ==
    \E r \in ReqIds :
        /\ proc[r].pc = "processed"
        /\ proc[r].indexes_ # <<>>
        /\ ~proc[r].ignoreExistedIndex_
        /\ Len(proc[r].calls) = 1
        /\ proc[r].calls[1].edges =
              <<[src |-> 1, edge_type |-> 2, ranking |-> 0, dst |-> 2, props |-> RowBad],
                [src |-> 1, edge_type |-> 1, ranking |-> 0, dst |-> 2, props |-> RowA]>>
        /\ Answered(r, 1)
        /\ proc[r].answers[1][1].code = SUCCEEDED
        /\ proc[r].lookups = 1
        /\ proc[r].decodes = 1
        /\ NewestValue(kvstore[1], 1, EdgeY) = RowBad
        /\ NewestValue(kvstore[1], 1, EdgeX) = RowA

\* ------------------------------------------------------------------------
\* C18  Primary records are never removed: every Remove of a batch an atomic
\* operation returned is on an index key of an identity the request writes
\* and on no primary key; no step takes a primary key out of a partition's
\* store; and with multi-versioning on, a successful write with a version
\* that was not stored yet adds one primary record to the identity and
\* leaves the older ones with their values.
\* ------------------------------------------------------------------------
C18_IsPrimary(p, k) ==
    \E e \in workload.ids :
        IsPrefix(edgePrefix(p, e.src, e.edge_type, e.ranking, e.dst), k)

C18_Removes ==
    \A r \in ReqIds : \A i \in 1..MaxEdges :
        ( /\ Answered(r, i)
          /\ proc[r].calls[i].api = "asyncAtomicOp" ) =>
        LET p == proc[r].calls[i].part
            ops == decodeBatchValue(proc[r].answers[i][1].value)
        IN  \A j \in 1..Len(ops) :
                ops[j].op = "remove" =>
                    /\ ~C18_IsPrimary(p, ops[j].key)
                    /\ \E e \in WrittenIds(r, p) : \E n \in 1..Len(AllIndexes) :
                         /\ AllIndexes[n].edge_type = e.edge_type
                         /\ IsPrefix(edgeIndexKey(p, AllIndexes[n].index_id, e.src,
                                                  e.ranking, e.dst, <<>>),
                                     ops[j].key)

C18_Grows ==
    \A p \in Parts : \A k \in DOMAIN kvstore[p] :
        C18_IsPrimary(p, k) => k \in DOMAIN kvstore'[p]

C18_KeepsVersions(r, i) ==
    LET p == proc[r].calls[i].part
    IN  \A e \in WrittenIds(r, p) :
            LET new == edgeKey(p, e.src, e.edge_type, e.ranking, e.dst,
                               proc[r].version)
            IN  new \notin DOMAIN kvstore[p] =>
                  /\ {k \in DOMAIN kvstore'[p] :
                         IsPrefix(edgePrefix(p, e.src, e.edge_type, e.ranking,
                                             e.dst), k)}
                       = PrimaryKeys(p, e) \cup {new}
                  /\ \A k \in PrimaryKeys(p, e) : kvstore'[p][k] = kvstore[p][k]

C18_NeverRemoved ==
    /\ []C18_Removes
    /\ [][C18_Grows]_vars
    /\ [][\A r \in ReqIds : \A i \in 1..MaxEdges :
            ( /\ Pending(r, i)
              /\ proc'[r].pc = "processed"
              /\ proc'[r].answers[i] # <<>>
              /\ proc'[r].answers[i][1].code = SUCCEEDED )
            => C18_KeepsVersions(r, i)]_vars

\* with multi-versioning on, an update on the indexed path removed the
\* obsolete entry of the index on f2 and the identity has both versions
C18_Witness ==
    /\ FLAGS_enable_multi_versions
    /\ proc[2].pc = "processed"
    /\ proc[2].indexes_ # <<>>
    /\ DOMAIN proc[2].parts = {1}
    /\ AllSucceeded(2)
    /\ \E j \in 1..Len(decodeBatchValue(proc[2].answers[1][1].value)) :
         decodeBatchValue(proc[2].answers[1][1].value)[j]
             = BatchRemove(IndexKeyOf(1, EdgeX, Idx2, RowA))
    /\ Cardinality(PrimaryKeys(1, EdgeX)) = 2
    /\ {kvstore[1][k] : k \in PrimaryKeys(1, EdgeX)} = {RowA, RowShort}

\* ------------------------------------------------------------------------
\* C19  Idempotent re-apply: for a request made with multi-versioning off
\* and ignoreExistedIndex false whose rows decode, and a store whose row of
\* each written identity decodes, running addEdges and applying its batch
\* twice in succession gives the store the first application gave; the
\* second batch holds, for every computable new index key IK, Remove(IK)
\* immediately followed by Put(IK), and IK is in the store afterwards.  The
\* same holds of the steps of the store: applying a request to the store
\* that an equal request has just produced changes nothing.
\* ------------------------------------------------------------------------
C19_Applies(r, i) ==
    LET c == proc[r].calls[i]
    IN  /\ c.api = "asyncAtomicOp"
        /\ proc[r].version = VersionTag(FALSE, clock)
        /\ ~proc[r].ignoreExistedIndex_
        /\ \A j \in 1..Len(c.edges) :
             getEdgePropReader(c.edges[j].props, c.edges[j].edge_type).valid
        /\ \A e \in WrittenIds(r, c.part) :
             \/ NewestValue(kvstore[c.part], c.part, e) = <<>>
             \/ Decodes(NewestValue(kvstore[c.part], c.part, e), e)

C19_Twice(r, i) ==
    LET c == proc[r].calls[i]
        p == c.part
        b1 == addEdges(proc[r], kvstore[p], SUCCEEDED, proc[r].version, p, c.edges)
        kv1 == ApplyBatch(kvstore[p], decodeBatchValue(b1))
        b2 == addEdges(proc[r], kv1, SUCCEEDED, proc[r].version, p, c.edges)
        ops2 == decodeBatchValue(b2)
        kv2 == ApplyBatch(kv1, ops2)
    IN  /\ b1 # <<>> /\ b2 # <<>>
        /\ kv2 = kv1
        /\ \A e \in WrittenIds(r, p) : \A n \in 1..Len(proc[r].indexes_) :
             LET IK == IndexKeyOf(p, e, proc[r].indexes_[n], LastValue(r, p, e))
             IN  (proc[r].indexes_[n].edge_type = e.edge_type /\ IK # <<>>) =>
                   /\ \E j \in 1..(Len(ops2) - 1) :
                        /\ ops2[j] = BatchRemove(IK)
                        /\ ops2[j + 1] = BatchPut(IK, <<>>)
                   /\ IK \in DOMAIN kv2

\* request q has been applied and the store is what its batch made of the
\* empty store; request r, equal to q, is applied next
C19_Reapplied(q, r) ==
    /\ q # r
    /\ AllSucceeded(q)
    /\ Len(proc[q].calls) = 1
    /\ proc[q].calls = proc[r].calls
    /\ proc[q].indexes_ = proc[r].indexes_
    /\ proc[q].version = proc[r].version
    /\ ~proc[q].ignoreExistedIndex_
    /\ kvstore[proc[q].calls[1].part]
         = ApplyBatch(<<>>, decodeBatchValue(proc[q].answers[1][1].value))

C19_Idempotent ==
    /\ [](\A r \in ReqIds : \A i \in 1..MaxEdges :
            ( /\ proc[r].pc = "processed"
              /\ i \in 1..Len(proc[r].calls)
              /\ C19_Applies(r, i) ) => C19_Twice(r, i))
    /\ [][\A q, r \in ReqIds :
            ( /\ Pending(r, 1)
              /\ C19_Applies(r, 1)
              /\ C19_Reapplied(q, r)
              /\ proc'[r].pc = "processed"
              /\ proc'[r].answers[1] # <<>>
              /\ proc'[r].answers[1][1].code = SUCCEEDED ) =>
            kvstore' = kvstore]_vars

\* the same full row written twice by two requests with multi-versioning
\* off: the second batch removes and puts back each index entry
C19_Witness ==
    /\ ~FLAGS_enable_multi_versions
    /\ AllSucceeded(1) /\ AllSucceeded(2)
    /\ Len(proc[1].calls) = 1
    /\ proc[1].calls = proc[2].calls
    /\ proc[1].calls[1].api = "asyncAtomicOp"
    /\ ~proc[1].ignoreExistedIndex_ /\ ~proc[2].ignoreExistedIndex_
    /\ proc[1].calls[1].edges =
          <<[src |-> 1, edge_type |-> 1, ranking |-> 0, dst |-> 2, props |-> RowA]>>
    /\ decodeBatchValue(proc[2].answers[1][1].value) =
          << BatchRemove(IndexKeyOf(1, EdgeX, Idx1, RowA)),
             BatchPut(IndexKeyOf(1, EdgeX, Idx1, RowA), <<>>),
             BatchRemove(IndexKeyOf(1, EdgeX, Idx2, RowA)),
             BatchPut(IndexKeyOf(1, EdgeX, Idx2, RowA), <<>>),
             BatchPut(edgeKey(1, 1, 1, 0, 2, proc[2].version), RowA) >>
    /\ kvstore[1] = ApplyBatch(<<>>, decodeBatchValue(proc[1].answers[1][1].value))
    /\ IndexKeyOf(1, EdgeX, Idx1, RowA) \in DOMAIN kvstore[1]

\* ------------------------------------------------------------------------
\* C20  Fast path and indexed path agree on primary records: for every
\* reachable store and every list of edges a request is about to write to a
\* partition of it, the multi-put of the fast path and the batch addEdges builds with the
\* space's indexes, made with the same version and applied to that store,
\* leave the same primary key/value pairs, whenever addEdges does not abort.
\* ------------------------------------------------------------------------
C20_Primary(kv, p) ==
    {<<k, kv[k]>> : k \in {x \in DOMAIN kv : C18_IsPrimary(p, x)}}

C20_Agree(r, p) ==
    LET edges == proc[r].parts[p]
        self == [proc[r] EXCEPT !.indexes_ = AllIndexes]
        fast == ApplyPuts(kvstore[p], PutData(proc[r].version, p, edges))
        ret == addEdges(self, kvstore[p], SUCCEEDED, proc[r].version, p, edges)
        indexed == ApplyBatch(kvstore[p], decodeBatchValue(ret))
    IN  ret # <<>> =>
          \A k \in DOMAIN fast \cup DOMAIN indexed :
              \/ k \in DOMAIN fast /\ k \in DOMAIN indexed /\ fast[k] = indexed[k]
              \/ ~C18_IsPrimary(p, k)

C20_PathsAgree ==
    \A r \in ReqIds : \A i \in 1..MaxEdges :
        Pending(r, i) => C20_Agree(r, proc[r].calls[i].part)

\* two mutations of one identity were applied on the indexed path to the
\* empty store, and the primary records are those the multi-put of the same
\* list gives
C20_Witness ==
    /\ proc[1].pc = "processed"
    /\ proc[2].pc = "new"
    /\ proc[1].indexes_ # <<>>
    /\ DOMAIN proc[1].parts = {1}
    /\ proc[1].parts[1] =
          <<[src |-> 1, edge_type |-> 1, ranking |-> 0, dst |-> 2, props |-> RowShort],
            [src |-> 1, edge_type |-> 1, ranking |-> 0, dst |-> 2, props |-> RowA]>>
    /\ AllSucceeded(1)
    /\ IndexEntries(1, EdgeX, Idx2) # {}
    /\ C20_Primary(kvstore[1], 1)
         = C20_Primary(ApplyPuts(<<>>, PutData(proc[1].version, 1,
                                               proc[1].parts[1])), 1)
    /\ C20_Primary(kvstore[1], 1)
         = {<<edgeKey(1, 1, 1, 0, 2, proc[1].version), RowA>>}
====
